---- MODULE Spec2Model ----
(***************************************************************************)
(* Model of scripts/update-mod-source-data/index.js: the script that reads *)
(* config.yaml, polls the releases of every configured mod and texture     *)
(* pack, assembles the catalog and writes site/mods.json when it changed.  *)
(*                                                                         *)
(* Strings the script inspects character by character (tags, ignore rules, *)
(* asset names) are sequences of one-character strings.  Strings it only   *)
(* copies (URLs, game names) are TLA+ strings.                             *)
(***************************************************************************)
EXTENDS Integers, Sequences, FiniteSets, TLC

(***************************************************************************)
(* Bounds of the model.                                                    *)
(***************************************************************************)
MaxReleases == 2
MaxRuns == 2
MaxRules == 2

(***************************************************************************)
(* JavaScript values.                                                      *)
(***************************************************************************)
\* undefined is the empty sequence and a value that may be undefined is the
\* one-element sequence of what it holds; null stands where a string could.
Undefined == <<>>
Some(v) == <<v>>
Null == "null"

(***************************************************************************)
(* String.prototype helpers.                                               *)
(***************************************************************************)
startsWith(s, p) == Len(s) >= Len(p) /\ SubSeq(s, 1, Len(p)) = p

substring(s, n) == SubSeq(s, n + 1, Len(s))

LowerOf ==
  [A |-> "a", B |-> "b", C |-> "c", D |-> "d", E |-> "e", F |-> "f", G |-> "g",
   H |-> "h", I |-> "i", J |-> "j", K |-> "k", L |-> "l", M |-> "m", N |-> "n",
   O |-> "o", P |-> "p", Q |-> "q", R |-> "r", S |-> "s", T |-> "t", U |-> "u",
   V |-> "v", W |-> "w", X |-> "x", Y |-> "y", Z |-> "z"]

toLowerCase(s) ==
  [i \in 1..Len(s) |-> IF s[i] \in DOMAIN LowerOf THEN LowerOf[s[i]] ELSE s[i]]

(***************************************************************************)
(* The semver package, as far as the script uses it: valid, lt and eq in   *)
(* strict mode on strings made of digits, dots and letters.  A strict      *)
(* version is an optional "v", then MAJOR.MINOR.PATCH, each a numeric      *)
(* identifier without a leading zero.                                      *)
(***************************************************************************)
Digits == <<"0", "1", "2", "3", "4", "5", "6", "7", "8", "9">>

IsDigit(c) == \E d \in 1..10 : Digits[d] = c

DigitVal(c) == (CHOOSE d \in 1..10 : Digits[d] = c) - 1

RECURSIVE SplitDots(_)
SplitDots(s) ==
  IF \A i \in 1..Len(s) : s[i] # "."
  THEN <<s>>
  ELSE LET i == CHOOSE j \in 1..Len(s) :
                  s[j] = "." /\ \A k \in 1..(j - 1) : s[k] # "."
       IN <<SubSeq(s, 1, i - 1)>> \o SplitDots(SubSeq(s, i + 1, Len(s)))

NumericIdentifier(p) ==
  /\ Len(p) > 0
  /\ \A i \in 1..Len(p) : IsDigit(p[i])
  /\ (Len(p) = 1 \/ p[1] # "0")

RECURSIVE NumVal(_)
NumVal(p) ==
  IF Len(p) = 0 THEN 0
  ELSE 10 * NumVal(SubSeq(p, 1, Len(p) - 1)) + DigitVal(p[Len(p)])

\* new SemVer(s): <<>> when s is rejected, else <<major, minor, patch>>.
semverParse(s) ==
  LET body == IF startsWith(s, <<"v">>) THEN substring(s, 1) ELSE s
      parts == SplitDots(body)
  IN IF Len(parts) = 3 /\ \A i \in 1..3 : NumericIdentifier(parts[i])
     THEN <<NumVal(parts[1]), NumVal(parts[2]), NumVal(parts[3])>>
     ELSE <<>>

semverValid(s) == semverParse(s) # <<>>

\* compare of two parsed versions: -1, 0 or 1.
semverCompare(a, b) ==
  LET d == CHOOSE i \in 1..4 : (i = 4 \/ a[i] # b[i]) /\ \A j \in 1..(i - 1) : a[j] = b[j]
  IN IF d = 4 THEN 0 ELSE IF a[d] < b[d] THEN -1 ELSE 1

\* semver.lt(a, b) and semver.eq(a, b); "throw" is the TypeError of an
\* invalid version.
semverLt(a, b) ==
  IF ~semverValid(a) \/ ~semverValid(b) THEN "throw"
  ELSE IF semverCompare(semverParse(a), semverParse(b)) < 0 THEN "true" ELSE "false"

semverEq(a, b) ==
  IF ~semverValid(a) \/ ~semverValid(b) THEN "throw"
  ELSE IF semverCompare(semverParse(a), semverParse(b)) = 0 THEN "true" ELSE "false"

(***************************************************************************)
(* Tag normalisation, lines 157-160 (mods) and 380-383 (texture packs).    *)
(***************************************************************************)
cleanedReleaseTag(tag_name) ==
  IF startsWith(tag_name, <<"v">>) THEN substring(tag_name, 1) ELSE tag_name

(***************************************************************************)
(* The ignore_versions loop.  The result is "skip" (skipIt set, break),    *)
(* "keep" (loop ran out) or "throw" (semver rejected an operand).          *)
(***************************************************************************)
\* A loop whose "<B" rules also exclude B itself.
RECURSIVE ignoreLoopInclusive(_, _)
ignoreLoopInclusive(ignore_versions, cleaned_release_tag) ==
  IF Len(ignore_versions) = 0 THEN "keep"
  ELSE LET ignore_version == Head(ignore_versions)
           verdict ==
             IF startsWith(ignore_version, <<"<">>)
             THEN IF semverLt(cleaned_release_tag, substring(ignore_version, 1)) = "false"
                  THEN semverEq(substring(ignore_version, 1), cleaned_release_tag)
                  ELSE semverLt(cleaned_release_tag, substring(ignore_version, 1))
             ELSE semverEq(ignore_version, cleaned_release_tag)
       IN IF verdict = "throw" THEN "throw"
          ELSE IF verdict = "true" THEN "skip"
          ELSE ignoreLoopInclusive(Tail(ignore_versions), cleaned_release_tag)

RECURSIVE ignoreLoop(_, _)
ignoreLoop(ignore_versions, cleaned_release_tag) ==
  IF Len(ignore_versions) = 0 THEN "keep"
  ELSE LET ignore_version == Head(ignore_versions)
           verdict ==
             IF startsWith(ignore_version, <<"<">>)
             THEN semverLt(cleaned_release_tag, substring(ignore_version, 1))
             ELSE semverEq(ignore_version, cleaned_release_tag)
       IN IF verdict = "throw" THEN "throw"
          ELSE IF verdict = "true" THEN "skip"
          ELSE ignoreLoop(Tail(ignore_versions), cleaned_release_tag)

(***************************************************************************)
(* Object.keys(o).includes(k) and property reads on objects that may lack  *)
(* the key.                                                                *)
(***************************************************************************)
includes(o, k) == k \in DOMAIN o

get(o, k) == IF k \in DOMAIN o THEN Some(o[k]) ELSE Undefined

\* `${x}` in a template literal.
interpolate(x) == IF x = Undefined THEN "undefined" ELSE x[1]

seqIncludes(list, x) == \E i \in 1..Len(list) : list[i] = x

(***************************************************************************)
(* Dates.  An ISO date string is <<year, month, day>>; a null published_at *)
(* is <<>>.  Date.parse gives a number that grows with the date, or NaN.   *)
(***************************************************************************)
\* Date.parse(d): <<n>> for a number, <<>> for NaN.
DateParse(d) ==
  IF Len(d) # 3 THEN <<>> ELSE <<(d[1] * 12 + (d[2] - 1)) * 31 + (d[3] - 1)>>

\* a > b on the results of Date.parse: false as soon as one side is NaN.
greaterThan(a, b) == a # <<>> /\ b # <<>> /\ a[1] > b[1]

(***************************************************************************)
(* exitWithError(errorMessage), lines 48-51: the message goes to stderr    *)
(* and the process ends with exit code 1.                                  *)
(***************************************************************************)
Message(text, mod, field, game, version) ==
  [text |-> text, mod |-> mod, field |-> field, game |-> game, version |-> version]

NoMessage == Message("", "", "", "", <<>>)

exitWithError(errorMessage) == [pc |-> "exited", exitCode |-> 1, stderr |-> errorMessage]

\* An exception nobody catches (a TypeError, a rejected API call): node
\* prints it and ends the process with exit code 1.
uncaught(errorMessage) == [pc |-> "crashed", exitCode |-> 1, stderr |-> errorMessage]

(***************************************************************************)
(* validateJsonKeys, lines 53-61.                                          *)
(***************************************************************************)
RequiredKeys == <<"display_name", "description", "authors", "tags">>

validateJsonKeys(keysToCheck, keys) ==
  \A i \in 1..Len(keysToCheck) : keysToCheck[i] \in keys

(***************************************************************************)
(* The start of one iteration of the mods loop, lines 100-137: the record  *)
(* built from the configuration entry before any release is looked at.     *)
(***************************************************************************)
inferredWebsiteUrl(modInfo) ==
  <<"https://www.github.com/", interpolate(get(modInfo, "repo_owner")), "/",
    interpolate(get(modInfo, "repo_name"))>>

copyPerGameConfig(modInfo) ==
  IF ~includes(modInfo, "per_game_config") THEN <<>>
  ELSE LET cfg == modInfo["per_game_config"]
           copied(perGameConfig) ==
             {k \in {"coverArtUrl", "thumbnailArtUrl"} :
                \/ k = "coverArtUrl" /\ includes(perGameConfig, "cover_art_url")
                \/ k = "thumbnailArtUrl" /\ includes(perGameConfig, "thumbnail_art_url")}
       IN [game \in DOMAIN cfg |->
             [k \in copied(cfg[game]) |->
                IF k = "coverArtUrl" THEN cfg[game]["cover_art_url"]
                ELSE cfg[game]["thumbnail_art_url"]]]

newModSourceInfo(modInfo) ==
  [displayName |-> modInfo["display_name"],
   description |-> modInfo["description"],
   authors |-> modInfo["authors"],
   tags |-> modInfo["tags"],
   websiteUrl |->
     IF includes(modInfo, "website_url") THEN get(modInfo, "website_url")
     ELSE IF ~includes(modInfo, "external_link") THEN Some(inferredWebsiteUrl(modInfo))
     ELSE Undefined,
   supportedGames |-> <<>>,
   versions |-> <<>>,
   coverArtUrl |-> get(modInfo, "cover_art_url"),
   thumbnailArtUrl |-> get(modInfo, "thumbnail_art_url"),
   perGameConfig |-> copyPerGameConfig(modInfo),
   externalLink |-> Null]

(***************************************************************************)
(* One release of a mod, lines 156-306.                                    *)
(*                                                                         *)
(* A release is [tag_name, published_at, assets]; an asset is [name,       *)
(* browser_download_url, download_count, content], content being what a    *)
(* GET of its URL answers: [status, text], and text [json, doc]: whether   *)
(* JSON.parse accepts it and the object it yields.                         *)
(***************************************************************************)
DefaultSettings == [decompConfigOverride |-> "", shareVanillaSaves |-> FALSE]

newVersionOf(cleaned_release_tag, release) ==
  [version |-> cleaned_release_tag,
   publishedDate |-> release.published_at,
   supportedGames |-> <<>>,
   settings |-> DefaultSettings,
   assets |-> [windows |-> Null, linux |-> Null, macos |-> Null],
   assetDownloadCounts |-> [windows |-> 0, linux |-> 0, macos |-> 0]]

\* The asset loop, lines 207-220: acc is [newVersion, metadataFileUrl].
RECURSIVE assetLoop(_, _)
assetLoop(assets, acc) ==
  IF Len(assets) = 0 THEN acc
  ELSE LET asset == Head(assets)
           name == toLowerCase(asset.name)
           slot(platform) ==
             [acc EXCEPT !.newVersion.assets[platform] = asset.browser_download_url,
                         !.newVersion.assetDownloadCounts[platform] = asset.download_count]
           next ==
             IF startsWith(name, <<"w", "i", "n", "d", "o", "w", "s", "-">>) THEN slot("windows")
             ELSE IF startsWith(name, <<"l", "i", "n", "u", "x", "-">>) THEN slot("linux")
             ELSE IF startsWith(name, <<"m", "a", "c", "o", "s", "-">>) THEN slot("macos")
             ELSE IF name = <<"m", "e", "t", "a", "d", "a", "t", "a", ".", "j", "s", "o", "n">>
                  THEN [acc EXCEPT !.metadataFileUrl = asset.browser_download_url]
             ELSE acc
       IN assetLoop(Tail(assets), next)

\* fetch(url): the answer of the asset that lives at url.
fetch(release, url) ==
  LET i == CHOOSE j \in 1..Len(release.assets) : release.assets[j].browser_download_url = url
  IN release.assets[i].content

\* Lines 235-239: the aggregate supportedGames of the mod.
RECURSIVE pushSupportedGames(_, _)
pushSupportedGames(supportedGames, games) ==
  IF Len(games) = 0 THEN supportedGames
  ELSE pushSupportedGames(
         IF seqIncludes(supportedGames, Head(games)) THEN supportedGames
         ELSE Append(supportedGames, Head(games)),
         Tail(games))

\* obj[key] = value, creating the key when it is missing.
setKey(obj, key, value) ==
  [k \in DOMAIN obj \cup {key} |-> IF k = key THEN value ELSE obj[k]]

\* Lines 242-259: the per-game release date.
RECURSIVE releaseDateLoop(_, _, _, _)
releaseDateLoop(perGameConfig, games, modInfo, publishedDate) ==
  IF Len(games) = 0 THEN perGameConfig
  ELSE LET supportedGame == Head(games)
           created ==
             IF includes(perGameConfig, supportedGame) THEN perGameConfig
             ELSE setKey(perGameConfig, supportedGame, <<>>)
           entry == created[supportedGame]
           dated ==
             IF includes(modInfo, "release_date_override")
             THEN setKey(entry, "releaseDate", modInfo["release_date_override"])
             ELSE IF /\ includes(modInfo, "per_game_config")
                     /\ includes(modInfo["per_game_config"], supportedGame)
                     /\ includes(modInfo["per_game_config"][supportedGame], "release_date_override")
             THEN setKey(entry, "releaseDate",
                         modInfo["per_game_config"][supportedGame]["release_date_override"])
             ELSE IF \/ ~includes(entry, "releaseDate")
                     \/ greaterThan(DateParse(entry["releaseDate"]), DateParse(publishedDate))
             THEN setKey(entry, "releaseDate", publishedDate)
             ELSE entry
       IN releaseDateLoop(setKey(created, supportedGame, dated), Tail(games), modInfo,
                          publishedDate)

\* Lines 262-274 for cover art and 275-287 for thumbnail art: the message of
\* the exitWithError reached, or NoMessage.
RECURSIVE perGameArtLoop(_, _, _, _, _)
perGameArtLoop(modName, perGameConfig, games, key, field) ==
  IF Len(games) = 0 THEN NoMessage
  ELSE IF \/ ~includes(perGameConfig, Head(games))
          \/ ~includes(perGameConfig[Head(games)], key)
       THEN Message("does not define the url and it's missing in 'per_game_config'",
                    modName, field, Head(games), <<>>)
       ELSE perGameArtLoop(modName, perGameConfig, Tail(games), key, field)

verifyArt(modName, modInfo, modSourceInfo, games, key, field, lint) ==
  IF modSourceInfo[key] # Undefined THEN NoMessage
  ELSE IF ~includes(modInfo, "per_game_config")
       THEN Message("does not define the url but lacks 'per_game_config'",
                    modName, field, "", <<>>)
  ELSE IF lint THEN NoMessage
  ELSE perGameArtLoop(modName, modSourceInfo.perGameConfig, games, key, field)

\* A check of line 300 that lets every version through.
noAssetsNeverSkips(newVersion) == FALSE

\* Line 300: no platform slot was filled.
noAssets(newVersion) ==
  /\ newVersion.assets.windows = Null
  /\ newVersion.assets.linux = Null
  /\ newVersion.assets.macos = Null

\* What one iteration of a release loop hands back: the entry's record, how
\* the iteration ended, and the exit it made (pc "" when it made none).
NoExit == [pc |-> "", exitCode |-> 0, stderr |-> NoMessage]

Iteration(modSourceInfo, outcome, exit) ==
  [modSourceInfo |-> modSourceInfo, outcome |-> outcome, exit |-> exit]

\* Lines 186-305: the release passed the ignore list.
resolveVersion(modName, modInfo, modSourceInfo, release, cleaned_release_tag, lint) ==
  LET scanned == assetLoop(release.assets,
                           [newVersion |-> newVersionOf(cleaned_release_tag, release),
                            metadataFileUrl |-> Null])
      die(text) == Iteration(modSourceInfo, "exit",
                             exitWithError(Message(text, modName, "", "", cleaned_release_tag)))
  IN IF scanned.metadataFileUrl = Null
     THEN die("Could not find 'metadata.json' asset")
     ELSE LET metadataResp == fetch(release, scanned.metadataFileUrl)
          IN IF metadataResp.status # 200
             THEN die("Hit non-200 status code when fetching metadata file")
             ELSE IF ~metadataResp.text.json
             THEN die("Bad metadata.json, not valid JSON")
             ELSE LET data == metadataResp.text.doc
                      withSettings ==
                        IF includes(data, "settings")
                        THEN [scanned.newVersion EXCEPT !.settings = data.settings]
                        ELSE scanned.newVersion
                  IN IF ~includes(data, "supportedGames")
                     THEN die("metadata.json does not include 'supportedGames'")
                     ELSE LET newVersion ==
                                [withSettings EXCEPT !.supportedGames = data.supportedGames]
                              games == newVersion.supportedGames
                              merged ==
                                [modSourceInfo EXCEPT
                                   !.supportedGames =
                                      pushSupportedGames(modSourceInfo.supportedGames, games),
                                   !.perGameConfig =
                                      releaseDateLoop(modSourceInfo.perGameConfig, games,
                                                      modInfo, newVersion.publishedDate)]
                              cover == verifyArt(modName, modInfo, merged, games,
                                                 "coverArtUrl", "cover_art_url", lint)
                              thumbnail == verifyArt(modName, modInfo, merged, games,
                                                     "thumbnailArtUrl", "thumbnail_art_url", lint)
                          IN IF cover # NoMessage
                             THEN Iteration(merged, "exit", exitWithError(cover))
                             ELSE IF thumbnail # NoMessage
                             THEN Iteration(merged, "exit", exitWithError(thumbnail))
                             ELSE IF noAssets(newVersion)
                             THEN Iteration(merged, "no_assets", NoExit)
                             ELSE Iteration(
                                    [merged EXCEPT !.versions = Append(@, newVersion)],
                                    "added", NoExit)

\* Lines 156-306: one iteration of the mods' release loop.  Everything after
\* the ignore list sits inside the `if` on the ignore_versions key (the block
\* opened at line 166 closes at line 306).
modReleaseIteration(modName, modInfo, modSourceInfo, release, lint) ==
  LET cleaned_release_tag == cleanedReleaseTag(release.tag_name)
  IN IF ~semverValid(cleaned_release_tag)
     THEN Iteration(modSourceInfo, "invalid_semver", NoExit)
     ELSE IF ~includes(modInfo, "ignore_versions")
     THEN Iteration(modSourceInfo, "no_ignore_list", NoExit)
     ELSE LET verdict == ignoreLoop(modInfo["ignore_versions"], cleaned_release_tag)
          IN IF verdict = "throw"
             THEN Iteration(modSourceInfo, "exit",
                            uncaught(Message("TypeError: Invalid Version", modName, "", "",
                                             cleaned_release_tag)))
             ELSE IF verdict = "skip"
             THEN Iteration(modSourceInfo, "ignored", NoExit)
             ELSE resolveVersion(modName, modInfo, modSourceInfo, release,
                                 cleaned_release_tag, lint)

(***************************************************************************)
(* Texture packs, lines 327-434.                                           *)
(***************************************************************************)
newPackSourceInfo(modInfo) ==
  [displayName |-> modInfo["display_name"],
   description |-> modInfo["description"],
   authors |-> modInfo["authors"],
   tags |-> modInfo["tags"],
   websiteUrl |->
     IF includes(modInfo, "website_url") THEN get(modInfo, "website_url")
     ELSE IF ~includes(modInfo, "external_link") THEN Some(inferredWebsiteUrl(modInfo))
     ELSE Undefined,
   versions |-> <<>>,
   thumbnailArtUrl |-> get(modInfo, "thumbnail_art_url"),
   perGameConfig |-> get(modInfo, "per_game_config")]

\* The asset loop of a texture pack, lines 416-421.
RECURSIVE packAssetLoop(_, _)
packAssetLoop(assets, newVersion) ==
  IF Len(assets) = 0 THEN newVersion
  ELSE packAssetLoop(
         Tail(assets),
         IF toLowerCase(Head(assets).name) = <<"a", "s", "s", "e", "t", "s", ".", "z", "i", "p">>
         THEN [newVersion EXCEPT !.downloadUrl = Head(assets).browser_download_url,
                                 !.downloadCount = Head(assets).download_count]
         ELSE newVersion)

\* Lines 409-428.  Line 423 reads newVersion.assets.downloadUrl, and the
\* record built at line 409 has no `assets`: the read of a property of
\* undefined throws a TypeError that nothing catches.
resolvePackVersion(modName, modSourceInfo, release, cleaned_release_tag) ==
  LET newVersion ==
        packAssetLoop(release.assets,
                      [version |-> cleaned_release_tag,
                       publishedDate |-> release.published_at,
                       downloadUrl |-> Null,
                       downloadCount |-> 0])
  IN IF ~includes(newVersion, "assets")
     THEN Iteration(modSourceInfo, "exit",
                    uncaught(Message("TypeError: Cannot read properties of undefined",
                                     modName, "downloadUrl", "", cleaned_release_tag)))
     ELSE IF newVersion.assets.downloadUrl = Null
     THEN Iteration(modSourceInfo, "no_assets", NoExit)
     ELSE Iteration([modSourceInfo EXCEPT !.versions = Append(@, newVersion)],
                    "added", NoExit)

\* The ignore_versions loop of a texture pack, lines 391-404.
RECURSIVE packIgnoreLoop(_, _)
packIgnoreLoop(ignore_versions, cleaned_release_tag) ==
  IF Len(ignore_versions) = 0 THEN "keep"
  ELSE LET ignore_version == Head(ignore_versions)
           verdict ==
             IF startsWith(ignore_version, <<"<">>)
             THEN semverLt(cleaned_release_tag, substring(ignore_version, 1))
             ELSE semverEq(ignore_version, cleaned_release_tag)
       IN IF verdict = "throw" THEN "throw"
          ELSE IF verdict = "true" THEN "skip"
          ELSE packIgnoreLoop(Tail(ignore_versions), cleaned_release_tag)

\* Lines 379-430: one iteration of a texture pack's release loop.
packReleaseIteration(modName, modInfo, modSourceInfo, release) ==
  LET cleaned_release_tag == cleanedReleaseTag(release.tag_name)
  IN IF ~semverValid(cleaned_release_tag)
     THEN Iteration(modSourceInfo, "invalid_semver", NoExit)
     ELSE IF ~includes(modInfo, "ignore_versions")
     THEN Iteration(modSourceInfo, "no_ignore_list", NoExit)
     ELSE LET verdict == packIgnoreLoop(modInfo["ignore_versions"], cleaned_release_tag)
          IN IF verdict = "throw"
             THEN Iteration(modSourceInfo, "exit",
                            uncaught(Message("TypeError: Invalid Version", modName, "", "",
                                             cleaned_release_tag)))
             ELSE IF verdict = "skip"
             THEN Iteration(modSourceInfo, "ignored", NoExit)
             ELSE resolvePackVersion(modName, modSourceInfo, release, cleaned_release_tag)

(***************************************************************************)
(* The end of one iteration of the mods loop, lines 314-317.               *)
(***************************************************************************)
jak1Fallback(modSourceInfo) ==
  IF Len(modSourceInfo.supportedGames) = 0
  THEN [modSourceInfo EXCEPT !.supportedGames = Append(@, "jak1")]
  ELSE modSourceInfo

(***************************************************************************)
(* JSON.  A text is [json, indent, doc]: whether JSON.parse accepts it,    *)
(* the indentation it was written with, and the document it spells.        *)
(* JSON.stringify leaves out the keys whose value is undefined and writes  *)
(* the others bare.                                                        *)
(***************************************************************************)
stringifyEntry(info, optional) ==
  [k \in {key \in DOMAIN info : key \notin optional \/ info[key] # Undefined} |->
     IF k \in optional THEN info[k][1] ELSE info[k]]

stringifyEntries(entries, optional) ==
  [i \in 1..Len(entries) |->
     [name |-> entries[i].name, info |-> stringifyEntry(entries[i].info, optional)]]

JSONstringify(data, indent) ==
  [json |-> TRUE,
   indent |-> indent,
   doc |-> [k \in DOMAIN data |->
              IF k = "mods"
              THEN stringifyEntries(data[k], {"websiteUrl", "coverArtUrl", "thumbnailArtUrl"})
              ELSE IF k = "texturePacks"
              THEN stringifyEntries(data[k], {"websiteUrl", "thumbnailArtUrl", "perGameConfig"})
              ELSE data[k]]]

\* JSON.parse of a text that parses; what it yields holds no undefined, so
\* it is marked as already bare.
JSONparse(text) == text.doc

\* JSON.stringify(JSON.parse(...)): a parsed document is spelled as it is.
stringifyParsed(doc, indent) == [json |-> TRUE, indent |-> indent, doc |-> doc]

\* delete obj[key]
deleteKey(obj, key) == [k \in DOMAIN obj \ {key} |-> obj[k]]

(***************************************************************************)
(* The inputs: what the releases API and the asset URLs can answer.        *)
(***************************************************************************)
TagV120 == <<"v", "1", ".", "2", ".", "0">>
Tag130 == <<"1", ".", "3", ".", "0">>
TagVV120 == <<"v", "v", "1", ".", "2", ".", "0">>
TagV100 == <<"v", "1", ".", "0", ".", "0">>
TagLatest == <<"l", "a", "t", "e", "s", "t">>

Tags == {TagV120, Tag130, TagVV120, TagV100, TagLatest}

Date2022 == <<2022, 1, 15>>
Date2023 == <<2023, 5, 1>>
Date2024 == <<2024, 2, 10>>

Binary == [status |-> 200, text |-> [json |-> FALSE, indent |-> 0, doc |-> <<>>]]

Document(doc) == [status |-> 200, text |-> [json |-> TRUE, indent |-> 0, doc |-> doc]]

Asset(name, url, count, content) ==
  [name |-> name, browser_download_url |-> url, download_count |-> count, content |-> content]

Windows == Asset(<<"w", "i", "n", "d", "o", "w", "s", "-", "1", ".", "z", "i", "p">>, "url/windows-1.zip", 7, Binary)
WindowsUpper == Asset(<<"W", "i", "n", "d", "o", "w", "s", "-", "1", ".", "z", "i", "p">>, "url/Windows-1.zip", 7, Binary)
WindowsLater == Asset(<<"w", "i", "n", "d", "o", "w", "s", "-", "2", ".", "z", "i", "p">>, "url/windows-2.zip", 3, Binary)
Linux == Asset(<<"l", "i", "n", "u", "x", "-", "1", ".", "z", "i", "p">>, "url/linux-1.zip", 5, Binary)
Macos == Asset(<<"m", "a", "c", "o", "s", "-", "1", ".", "z", "i", "p">>, "url/macos-1.zip", 2, Binary)
AssetsZip == Asset(<<"a", "s", "s", "e", "t", "s", ".", "z", "i", "p">>, "url/assets.zip", 4, Binary)
Readme == Asset(<<"r", "e", "a", "d", "m", "e", ".", "t", "x", "t">>, "url/readme", 1, Binary)

Metadata(content) == Asset(<<"m", "e", "t", "a", "d", "a", "t", "a", ".", "j", "s", "o", "n">>, "url/metadata.json", 1, content)
MetadataUpper(content) == Asset(<<"M", "e", "t", "a", "d", "a", "t", "a", ".", "J", "S", "O", "N">>, "url/Metadata.JSON", 1, content)

CustomSettings == [decompConfigOverride |-> "custom", shareVanillaSaves |-> TRUE]

MetaJak1 == Document([supportedGames |-> <<"jak1">>])
MetaBoth == Document([supportedGames |-> <<"jak1", "jak2">>, settings |-> CustomSettings])
MetaNoGames == Document([settings |-> CustomSettings])
MetaEmptyGames == Document([supportedGames |-> <<>>])
MetaNotJson == [status |-> 200, text |-> [json |-> FALSE, indent |-> 0, doc |-> <<>>]]
MetaNotFound == [status |-> 404, text |-> [json |-> FALSE, indent |-> 0, doc |-> <<>>]]

Release(tag_name, published_at, assets) ==
  [tag_name |-> tag_name, published_at |-> published_at, assets |-> assets]

\* The releases the repository may hold: the tags the script tells apart
\* (one "v", none, two, below the ignore bound, no version at all) on
\* complete releases, and on the plain tag every way a release can lack its
\* metadata or its platform assets.
Releases ==
  {Release(TagV120, Date2024, <<Windows, Metadata(MetaJak1)>>),
   Release(Tag130, Date2023,
           <<WindowsUpper, Linux, Macos, WindowsLater, MetadataUpper(MetaBoth)>>),
   Release(TagVV120, Date2024, <<Windows, Metadata(MetaJak1)>>),
   Release(TagV100, Date2022, <<>>),
   Release(TagLatest, Date2024, <<Windows, Metadata(MetaJak1)>>),
   Release(TagV120, Date2023, <<AssetsZip, Metadata(MetaJak1)>>),
   Release(TagV120, Date2023, <<Macos, Readme, Metadata(MetaEmptyGames)>>),
   Release(TagV120, Date2024, <<Windows>>),
   Release(TagV120, Date2024, <<>>),
   Release(TagV120, Date2024, <<Windows, Metadata(MetaNotFound)>>),
   Release(TagV120, Date2024, <<Windows, Metadata(MetaNotJson)>>),
   Release(TagV120, Date2024, <<Windows, Metadata(MetaNoGames)>>),
   Release(TagV120, Date2024, <<Metadata(MetaNoGames)>>)}

\* The releases that get published between two runs: a complete one, one
\* without metadata, one whose tag is no version.
PublishedReleases ==
  {Release(Tag130, Date2024, <<Linux, Metadata(MetaJak1)>>),
   Release(TagV120, Date2024, <<Windows>>),
   Release(TagLatest, Date2024, <<Windows, Metadata(MetaJak1)>>)}

RECURSIVE SeqsUpTo(_, _)
SeqsUpTo(S, n) ==
  IF n = 0 THEN {<<>>}
  ELSE LET shorter == SeqsUpTo(S, n - 1)
       IN shorter \cup {Append(q, x) : q \in {p \in shorter : Len(p) = n - 1}, x \in S}

ReleaseLists == SeqsUpTo(Releases, MaxReleases)

(***************************************************************************)
(* The inputs: what config.yaml can hold.                                  *)
(***************************************************************************)
Described ==
  [display_name |-> "Foo", description |-> "a mod", authors |-> <<"someone">>,
   tags |-> <<"gameplay">>]

Repository == [repo_owner |-> "x", repo_name |-> "y"]

\* Rules of an ignore list: bounds, exact versions, and one that is not a
\* semantic version.
RuleBelow120 == <<"<", "1", ".", "2", ".", "0">>
Rule120 == <<"1", ".", "2", ".", "0">>
Rule130 == <<"1", ".", "3", ".", "0">>
RuleBelow131 == <<"<", "1", ".", "3", ".", "1">>
RuleMalformed == <<"1", ".", "2">>

Rules == {RuleBelow120, Rule120, Rule130, RuleBelow131, RuleMalformed}

IgnoreRules == <<<<"<", "1", ".", "2", ".", "0">>, <<"1", ".", "3", ".", "1">>>>

IgnoreConfigs == {<<>>, [ignore_versions |-> IgnoreRules]}

PerGame(config) == [per_game_config |-> [jak1 |-> config]]

ArtConfigs ==
  {<<>>,
   [cover_art_url |-> "art/cover", thumbnail_art_url |-> "art/thumbnail"],
   [cover_art_url |-> "art/cover", thumbnail_art_url |-> "art/thumbnail",
    release_date_override |-> Date2022],
   PerGame([cover_art_url |-> "art/jak1/cover", thumbnail_art_url |-> "art/jak1/thumbnail"]),
   PerGame([cover_art_url |-> "art/jak1/cover", thumbnail_art_url |-> "art/jak1/thumbnail",
            release_date_override |-> Date2022]),
   PerGame([cover_art_url |-> "art/jak1/cover"]),
   [cover_art_url |-> "art/cover"] @@ PerGame([thumbnail_art_url |-> "art/jak1/thumbnail"])}

RepositoryMods == {Described @@ Repository @@ i @@ a : i \in IgnoreConfigs, a \in ArtConfigs}

ExternalMod ==
  Described @@ [external_link |-> "https://elsewhere.example", supported_games |-> <<"jak2">>]

ModEntries ==
  RepositoryMods
  \cup {ExternalMod,
        [ExternalMod EXCEPT !["supported_games"] = <<>>],
        deleteKey(ExternalMod, "supported_games"),
        deleteKey(Described, "tags") @@ Repository,
        Described @@ [repo_name |-> "y"]}

PackEntries ==
  {Described @@ Repository @@ i @@ a :
     i \in IgnoreConfigs,
     a \in {<<>>, [thumbnail_art_url |-> "art/thumbnail"],
            PerGame([thumbnail_art_url |-> "art/jak1/thumbnail"])}}
  \cup {deleteKey(Described, "authors") @@ Repository,
        Described @@ [repo_owner |-> "x", thumbnail_art_url |-> "art/thumbnail"]}

ModNames == <<"foo", "bar", "baz">>
PackNames == <<"hd", "retro", "neon">>

Named(names, infos) == [i \in 1..Len(infos) |-> [name |-> names[i], info |-> infos[i]]]

\* config.yaml: whether it exists, whether YAML.parse accepts it, and the
\* document it spells.
ConfigFile(doc) == [exists |-> TRUE, yaml |-> TRUE, doc |-> doc]

\* The configurations: one mod of every kind; a second mod behind an
\* external one; one texture pack of every kind, alone or behind a mod.
ModLists ==
  {<<>>} \cup {<<m>> : m \in ModEntries}
  \cup {<<ExternalMod, m>> : m \in ModEntries \ RepositoryMods}
  \cup {<<ExternalMod, Described @@ Repository @@ i @@ [cover_art_url |-> "art/cover"]>> :
          i \in IgnoreConfigs}

GoodConfigs ==
  {ConfigFile([metadata |-> [name |-> "modlist"], mods |-> Named(ModNames, m)]) :
     m \in ModLists}
  \cup {ConfigFile([metadata |-> [name |-> "modlist"], mods |-> <<>>,
                    texture_packs |-> Named(PackNames, <<q>>)]) : q \in PackEntries}
  \cup {ConfigFile([metadata |-> [name |-> "modlist"], mods |-> Named(ModNames, <<m>>),
                    texture_packs |-> Named(PackNames, <<q>>)]) :
          m \in {ExternalMod,
                 Described @@ Repository @@ [ignore_versions |-> IgnoreRules]
                   @@ [cover_art_url |-> "art/cover", thumbnail_art_url |-> "art/thumbnail"]},
          q \in {Described @@ Repository @@ i @@ [thumbnail_art_url |-> "art/thumbnail"] :
                   i \in IgnoreConfigs}}

BadConfigs ==
  {[exists |-> FALSE, yaml |-> FALSE, doc |-> <<>>],
   [exists |-> TRUE, yaml |-> FALSE, doc |-> <<>>],
   ConfigFile([metadata |-> <<>>, mods |-> <<>>]),
   ConfigFile([metadata |-> [name |-> "modlist"]])}

Configs == GoodConfigs \cup BadConfigs

\* The configurations that are run again and again: a sound one and a
\* failing one of each section.
ArtBoth == [cover_art_url |-> "art/cover", thumbnail_art_url |-> "art/thumbnail"]

Catalogued(mods, packs) ==
  ConfigFile([metadata |-> [name |-> "modlist"], mods |-> Named(ModNames, mods),
              texture_packs |-> Named(PackNames, packs)])

RerunConfigs ==
  {Catalogued(<<Described @@ Repository @@ [ignore_versions |-> IgnoreRules] @@ ArtBoth>>,
              <<Described @@ Repository @@ [thumbnail_art_url |-> "art/thumbnail"]>>),
   Catalogued(<<ExternalMod,
                Described @@ Repository @@ [ignore_versions |-> IgnoreRules]
                  @@ PerGame([cover_art_url |-> "art/jak1/cover",
                              thumbnail_art_url |-> "art/jak1/thumbnail"])>>,
              <<Described @@ Repository @@ [ignore_versions |-> IgnoreRules]
                  @@ [thumbnail_art_url |-> "art/thumbnail"]>>),
   Catalogued(<<Described @@ Repository @@ ArtBoth, deleteKey(ExternalMod, "supported_games")>>,
              <<>>),
   Catalogued(<<ExternalMod>>, <<deleteKey(Described, "authors") @@ Repository>>),
   ConfigFile([metadata |-> [name |-> "modlist"]])}

(***************************************************************************)
(* The state.                                                              *)
(*   lintMode, configYaml: the argument and the configuration of the run   *)
(*   github: the releases of the repository x/y, once a call has seen them *)
(*   file: site/mods.json; now: the clock                                  *)
(*   pc, idx, rel: where the script is; modReleases: the list line 154 or  *)
(*     377 fetched; modSourceInfo, modSourceData: the records being built  *)
(*   exitCode, stderr: how the process ended                               *)
(*   run, fileAtStart, writes, last: what a run did, kept for the          *)
(*     properties (the run number, the file it found, the writes it made,  *)
(*     its latest release iteration: the entry, the release, the entry's   *)
(*     record before and after, and how the iteration ended, until the     *)
(*     entry's loop is left)                                               *)
(*   previous: whether the run before this one was a full run that got to  *)
(*     its end, whether the repository changed between the two, and        *)
(*     whether it changed since this run ended                             *)
(***************************************************************************)
VARIABLES lintMode, configYaml, github, file, now, pc, idx, rel, modReleases,
          modSourceInfo, modSourceData, exitCode, stderr, run, fileAtStart, writes, last,
          previous

vars == <<lintMode, configYaml, github, file, now, pc, idx, rel, modReleases,
          modSourceInfo, modSourceData, exitCode, stderr, run, fileAtStart, writes, last,
          previous>>

NoFile == [exists |-> FALSE, text |-> [json |-> FALSE, indent |-> 0, doc |-> <<>>]]

NoIteration ==
  [kind |-> "", name |-> "", index |-> 0, modInfo |-> <<>>,
   release |-> Release(<<>>, <<>>, <<>>), before |-> <<>>, after |-> <<>>, outcome |-> ""]

Init ==
  /\ lintMode \in BOOLEAN
  /\ configYaml \in Configs
  /\ github = Undefined
  /\ file = NoFile
  /\ now = 1
  /\ pc = "start"
  /\ idx = 1
  /\ rel = 1
  /\ modReleases = <<>>
  /\ modSourceInfo = <<>>
  /\ modSourceData = <<>>
  /\ exitCode = 0
  /\ stderr = NoMessage
  /\ run = 1
  /\ fileAtStart = NoFile
  /\ writes = 0
  /\ last = NoIteration
  /\ previous = [done |-> FALSE, changed |-> FALSE, pending |-> FALSE]

\* The process ends: exitWithError or an uncaught exception.
Ends(exit) ==
  /\ pc' = exit.pc
  /\ exitCode' = exit.exitCode
  /\ stderr' = exit.stderr

\* Lines 63-91: the configuration is read and the catalog is started.
Start ==
  /\ pc = "start"
  /\ IF ~configYaml.exists
     THEN Ends(exitWithError(Message("Couldn't locate 'config.yaml' file", "", "", "", <<>>)))
          /\ UNCHANGED modSourceData
     ELSE IF ~configYaml.yaml
     THEN Ends(exitWithError(Message("Couldn't successfully parse config file", "", "", "", <<>>)))
          /\ UNCHANGED modSourceData
     ELSE IF ~includes(configYaml.doc["metadata"], "name")
     THEN Ends(exitWithError(Message("'metadata' section missing schema_version or name",
                                     "", "", "", <<>>)))
          /\ UNCHANGED modSourceData
     ELSE IF ~includes(configYaml.doc, "mods")
     THEN Ends(exitWithError(Message("'mods' section missing", "", "", "", <<>>)))
          /\ modSourceData' = [schemaVersion |-> "1.0.0",
                               sourceName |-> configYaml.doc["metadata"]["name"],
                               mods |-> <<>>, texturePacks |-> <<>>]
     ELSE /\ pc' = "mods"
          /\ modSourceData' = [schemaVersion |-> "1.0.0",
                               sourceName |-> configYaml.doc["metadata"]["name"],
                               mods |-> <<>>, texturePacks |-> <<>>]
          /\ UNCHANGED <<exitCode, stderr>>
  /\ UNCHANGED <<lintMode, configYaml, github, file, now, idx, rel, modReleases,
                 modSourceInfo, run, fileAtStart, writes, last, previous>>

\* octokit.paginate(listReleases) for x/y: the releases of the repository,
\* the same ones at every call that is answered.  A call that fails for
\* good (the retries are used up) rejects, and nothing catches that.
Listings == IF github = Undefined THEN ReleaseLists ELSE {github[1]}

\* modSourceData.mods[modName] = modSourceInfo
StoreMod(modName, info) ==
  modSourceData' = [modSourceData EXCEPT !.mods = Append(@, [name |-> modName, info |-> info])]

\* Lines 93-154: one entry of `mods`, up to the call that lists its releases.
ModBegin ==
  /\ pc = "mods"
  /\ idx <= Len(configYaml.doc["mods"])
  /\ LET modName == configYaml.doc["mods"][idx].name
         modInfo == configYaml.doc["mods"][idx].info
     IN IF ~validateJsonKeys(RequiredKeys, DOMAIN modInfo)
        THEN /\ Ends(exitWithError(Message("aborting", "", "", "", <<>>)))
             /\ UNCHANGED <<github, idx, rel, modReleases, modSourceInfo, modSourceData>>
        ELSE IF includes(modInfo, "external_link")
        THEN IF ~includes(modInfo, "supported_games")
             THEN /\ Ends(exitWithError(Message("is external but lacks 'supported_games'",
                                                modName, "supported_games", "", <<>>)))
                  /\ modSourceInfo' = [newModSourceInfo(modInfo) EXCEPT
                                         !.externalLink = modInfo["external_link"]]
                  /\ UNCHANGED <<github, idx, rel, modReleases, modSourceData>>
             ELSE /\ modSourceInfo' = [newModSourceInfo(modInfo) EXCEPT
                                         !.externalLink = modInfo["external_link"],
                                         !.supportedGames = modInfo["supported_games"]]
                  /\ StoreMod(modName, modSourceInfo')
                  /\ idx' = idx + 1
                  /\ UNCHANGED <<github, pc, exitCode, stderr, rel, modReleases>>
        ELSE IF ~includes(modInfo, "repo_owner") \/ ~includes(modInfo, "repo_name")
        THEN /\ Ends(exitWithError(Message("'repo_owner' or 'repo_name' missing", modName,
                                           "", "", <<>>)))
             /\ modSourceInfo' = newModSourceInfo(modInfo)
             /\ UNCHANGED <<github, idx, rel, modReleases, modSourceData>>
        ELSE IF lintMode
        THEN /\ modSourceInfo' = jak1Fallback(newModSourceInfo(modInfo))
             /\ StoreMod(modName, modSourceInfo')
             /\ idx' = idx + 1
             /\ UNCHANGED <<github, pc, exitCode, stderr, rel, modReleases>>
        ELSE /\ modSourceInfo' = newModSourceInfo(modInfo)
             /\ \E answered \in BOOLEAN :
                  IF answered
                  THEN /\ \E list \in Listings :
                            /\ github' = Some(list)
                            /\ modReleases' = list
                       /\ rel' = 1
                       /\ pc' = "modReleases"
                       /\ UNCHANGED <<exitCode, stderr>>
                  ELSE /\ Ends(uncaught(Message("HttpError", modName, "", "", <<>>)))
                       /\ UNCHANGED <<github, rel, modReleases>>
             /\ UNCHANGED <<idx, modSourceData>>
  /\ UNCHANGED <<lintMode, configYaml, file, now, run, fileAtStart, writes, last, previous>>

\* Lines 156-306: one release of the current mod.
ModRelease ==
  /\ pc = "modReleases"
  /\ rel <= Len(modReleases)
  /\ LET modName == configYaml.doc["mods"][idx].name
         modInfo == configYaml.doc["mods"][idx].info
         done == modReleaseIteration(modName, modInfo, modSourceInfo, modReleases[rel],
                                     lintMode)
     IN /\ modSourceInfo' = done.modSourceInfo
        /\ last' = [kind |-> "mod", name |-> modName, index |-> rel, modInfo |-> modInfo,
                    release |-> modReleases[rel], before |-> modSourceInfo,
                    after |-> done.modSourceInfo, outcome |-> done.outcome]
        /\ IF done.outcome = "exit"
           THEN Ends(done.exit) /\ UNCHANGED rel
           ELSE rel' = rel + 1 /\ UNCHANGED <<pc, exitCode, stderr>>
  /\ UNCHANGED <<lintMode, configYaml, github, file, now, idx, modReleases, modSourceData,
                 run, fileAtStart, writes, previous>>

\* Lines 310-320: the releases are done, the entry goes into the catalog.
ModStore ==
  /\ pc = "modReleases"
  /\ rel > Len(modReleases)
  /\ modSourceInfo' = jak1Fallback(modSourceInfo)
  /\ StoreMod(configYaml.doc["mods"][idx].name, modSourceInfo')
  /\ idx' = idx + 1
  /\ pc' = "mods"
  /\ last' = NoIteration
  /\ UNCHANGED <<lintMode, configYaml, github, file, now, rel, modReleases, exitCode, stderr,
                 run, fileAtStart, writes, previous>>

\* Line 323: the mods are done.
ModsEnd ==
  /\ pc = "mods"
  /\ idx > Len(configYaml.doc["mods"])
  /\ idx' = 1
  /\ pc' = IF includes(configYaml.doc, "texture_packs") THEN "packs" ELSE "write"
  /\ UNCHANGED <<lintMode, configYaml, github, file, now, rel, modReleases, modSourceInfo,
                 modSourceData, exitCode, stderr, run, fileAtStart, writes, last, previous>>

\* modSourceData.texturePacks[modName] = modSourceInfo
StorePack(modName, info) ==
  modSourceData' =
    [modSourceData EXCEPT !.texturePacks = Append(@, [name |-> modName, info |-> info])]

\* Lines 327-377: one entry of `texture_packs`, up to the call that lists
\* its releases.
PackBegin ==
  /\ pc = "packs"
  /\ idx <= Len(configYaml.doc["texture_packs"])
  /\ LET modName == configYaml.doc["texture_packs"][idx].name
         modInfo == configYaml.doc["texture_packs"][idx].info
     IN IF ~validateJsonKeys(RequiredKeys, DOMAIN modInfo)
        THEN /\ Ends(exitWithError(Message("aborting", "", "", "", <<>>)))
             /\ UNCHANGED <<github, idx, rel, modReleases, modSourceInfo, modSourceData>>
        ELSE IF /\ newPackSourceInfo(modInfo).thumbnailArtUrl = Undefined
                /\ ~includes(modInfo, "per_game_config")
        THEN /\ Ends(exitWithError(Message("does not define the url but lacks 'per_game_config'",
                                           modName, "thumbnail_art_url", "", <<>>)))
             /\ modSourceInfo' = newPackSourceInfo(modInfo)
             /\ UNCHANGED <<github, idx, rel, modReleases, modSourceData>>
        ELSE IF ~includes(modInfo, "repo_owner") \/ ~includes(modInfo, "repo_name")
        THEN /\ Ends(exitWithError(Message("'repo_owner' or 'repo_name' missing", modName,
                                           "", "", <<>>)))
             /\ modSourceInfo' = newPackSourceInfo(modInfo)
             /\ UNCHANGED <<github, idx, rel, modReleases, modSourceData>>
        ELSE IF lintMode
        THEN /\ modSourceInfo' = newPackSourceInfo(modInfo)
             /\ StorePack(modName, modSourceInfo')
             /\ idx' = idx + 1
             /\ UNCHANGED <<github, pc, exitCode, stderr, rel, modReleases>>
        ELSE /\ modSourceInfo' = newPackSourceInfo(modInfo)
             /\ \E answered \in BOOLEAN :
                  IF answered
                  THEN /\ \E list \in Listings :
                            /\ github' = Some(list)
                            /\ modReleases' = list
                       /\ rel' = 1
                       /\ pc' = "packReleases"
                       /\ UNCHANGED <<exitCode, stderr>>
                  ELSE /\ Ends(uncaught(Message("HttpError", modName, "", "", <<>>)))
                       /\ UNCHANGED <<github, rel, modReleases>>
             /\ UNCHANGED <<idx, modSourceData>>
  /\ UNCHANGED <<lintMode, configYaml, file, now, run, fileAtStart, writes, last, previous>>

\* Lines 379-430: one release of the current texture pack.
PackRelease ==
  /\ pc = "packReleases"
  /\ rel <= Len(modReleases)
  /\ LET modName == configYaml.doc["texture_packs"][idx].name
         modInfo == configYaml.doc["texture_packs"][idx].info
         done == packReleaseIteration(modName, modInfo, modSourceInfo, modReleases[rel])
     IN /\ modSourceInfo' = done.modSourceInfo
        /\ last' = [kind |-> "pack", name |-> modName, index |-> rel, modInfo |-> modInfo,
                    release |-> modReleases[rel], before |-> modSourceInfo,
                    after |-> done.modSourceInfo, outcome |-> done.outcome]
        /\ IF done.outcome = "exit"
           THEN Ends(done.exit) /\ UNCHANGED rel
           ELSE rel' = rel + 1 /\ UNCHANGED <<pc, exitCode, stderr>>
  /\ UNCHANGED <<lintMode, configYaml, github, file, now, idx, modReleases, modSourceData,
                 run, fileAtStart, writes, previous>>

\* Lines 432-433: the releases are done, the pack goes into the catalog.
PackStore ==
  /\ pc = "packReleases"
  /\ rel > Len(modReleases)
  /\ StorePack(configYaml.doc["texture_packs"][idx].name, modSourceInfo)
  /\ idx' = idx + 1
  /\ pc' = "packs"
  /\ last' = NoIteration
  /\ UNCHANGED <<lintMode, configYaml, github, file, now, rel, modReleases, modSourceInfo,
                 exitCode, stderr, run, fileAtStart, writes, previous>>

\* Line 435: the texture packs are done.
PacksEnd ==
  /\ pc = "packs"
  /\ idx > Len(configYaml.doc["texture_packs"])
  /\ pc' = "write"
  /\ UNCHANGED <<lintMode, configYaml, github, file, now, idx, rel, modReleases,
                 modSourceInfo, modSourceData, exitCode, stderr, run, fileAtStart, writes, last, previous>>

(***************************************************************************)
(* Lines 437-457: the catalog is compared with site/mods.json and written  *)
(* when it differs.                                                        *)
(***************************************************************************)
\* A comparison that keeps the file's lastUpdated.
unchangedWithStamp(text, data) ==
  stringifyParsed(JSONparse(text), 0) = JSONstringify(data, 0)

\* Line 443, on a file that exists.
unchanged(text, data) ==
  stringifyParsed(deleteKey(JSONparse(text), "lastUpdated"), 0) = JSONstringify(data, 0)

\* Lines 447-449 and 453-455: the text that is written.
stamped(data, time) == JSONstringify(setKey(data, "lastUpdated", time), 4)

\* A write that line 437 does not guard.
writeInEveryMode(lint, old, data, time) ==
  IF old.exists /\ unchanged(old.text, data) THEN old
  ELSE [exists |-> TRUE, text |-> stamped(data, time)]

\* The file after lines 437-457.
diffAndWrite(lint, old, data, time) ==
  IF lint THEN old
  ELSE IF old.exists /\ unchanged(old.text, data) THEN old
  ELSE [exists |-> TRUE, text |-> stamped(data, time)]

DiffAndWrite ==
  /\ pc = "write"
  /\ file' = diffAndWrite(lintMode, file, modSourceData, now)
  /\ IF lintMode \/ (file.exists /\ unchanged(file.text, modSourceData))
     THEN UNCHANGED <<writes, modSourceData>>
     ELSE /\ writes' = writes + 1
          /\ modSourceData' = setKey(modSourceData, "lastUpdated", now)
  /\ pc' = "done"
  /\ UNCHANGED <<lintMode, configYaml, github, now, idx, rel, modReleases, modSourceInfo,
                 exitCode, stderr, run, fileAtStart, last, previous>>

(***************************************************************************)
(* The script is run again, later, on the same configuration.              *)
(***************************************************************************)
Finished == pc \in {"done", "exited", "crashed"}

\* A release is published in the meantime: the API lists it first.
Publish ==
  /\ Finished
  /\ run < MaxRuns
  /\ github # Undefined
  /\ Len(github[1]) < MaxReleases
  /\ ~previous.pending
  /\ \E release \in PublishedReleases : github' = Some(<<release>> \o github[1])
  /\ previous' = [previous EXCEPT !.pending = TRUE]
  /\ UNCHANGED <<lintMode, configYaml, file, now, pc, idx, rel, modReleases, modSourceInfo,
                 modSourceData, exitCode, stderr, run, fileAtStart, writes, last>>

Rerun ==
  /\ Finished
  /\ run < MaxRuns
  /\ run' = run + 1
  /\ now' = now + 1
  /\ lintMode' \in BOOLEAN
  /\ fileAtStart' = file
  /\ previous' = [done |-> pc = "done" /\ ~lintMode, changed |-> previous.pending,
                  pending |-> FALSE]
  /\ writes' = 0
  /\ pc' = "start"
  /\ idx' = 1
  /\ rel' = 1
  /\ modReleases' = <<>>
  /\ modSourceInfo' = <<>>
  /\ modSourceData' = <<>>
  /\ exitCode' = 0
  /\ stderr' = NoMessage
  /\ last' = NoIteration
  /\ UNCHANGED <<configYaml, github, file>>

\* One run of the script.
NextOnce ==
  \/ Start
  \/ ModBegin
  \/ ModRelease
  \/ ModStore
  \/ ModsEnd
  \/ PackBegin
  \/ PackRelease
  \/ PackStore
  \/ PacksEnd
  \/ DiffAndWrite

Spec == Init /\ [][NextOnce]_vars

\* Run after run.
Next == NextOnce \/ Publish \/ Rerun

InitRerun == Init /\ configYaml \in RerunConfigs

SpecRerun == InitRerun /\ [][Next]_vars

(***************************************************************************)
(* One full run over one entry, a mod or a texture pack, with an           *)
(* ignore_versions list of up to MaxRules rules, on a repository with one  *)
(* release.                                                                *)
(***************************************************************************)
IgnoreConfigsOf(rules) ==
  {Catalogued(<<Described @@ Repository @@ [ignore_versions |-> rules] @@ ArtBoth>>, <<>>),
   Catalogued(<<>>, <<Described @@ Repository @@ [ignore_versions |-> rules]
                        @@ [thumbnail_art_url |-> "art/thumbnail"]>>)}

InitIgnore ==
  /\ lintMode = FALSE
  /\ \E rules \in SeqsUpTo(Rules, MaxRules) : configYaml \in IgnoreConfigsOf(rules)
  /\ \E tag \in Tags :
       github = Some(<<Release(tag, Date2023, <<Windows, AssetsZip, Metadata(MetaJak1)>>)>>)
  /\ file = NoFile
  /\ now = 1
  /\ pc = "start"
  /\ idx = 1
  /\ rel = 1
  /\ modReleases = <<>>
  /\ modSourceInfo = <<>>
  /\ modSourceData = <<>>
  /\ exitCode = 0
  /\ stderr = NoMessage
  /\ run = 1
  /\ fileAtStart = NoFile
  /\ writes = 0
  /\ last = NoIteration
  /\ previous = [done |-> FALSE, changed |-> FALSE, pending |-> FALSE]

SpecIgnore == InitIgnore /\ [][NextOnce]_vars

(***************************************************************************)
(* One full run over one mod, whose releases are up to MaxReleases of:     *)
(* two that get into the versions list, one without platform asset, and a  *)
(* draft (the API gives published_at: null for a draft).  The mod has no   *)
(* release date override, one for the entry, or one for jak1.              *)
(***************************************************************************)
MergeReleases ==
  {Release(TagV120, Date2023, <<Windows, Metadata(MetaJak1)>>),
   Release(Tag130, Date2024, <<Linux, Metadata(MetaBoth)>>),
   Release(Tag130, Date2022, <<Readme, Metadata(MetaBoth)>>),
   Release(TagV120, <<>>, <<Macos, Metadata(MetaJak1)>>)}

MergeMods ==
  {Described @@ Repository @@ [ignore_versions |-> IgnoreRules] @@ ArtBoth @@ d :
     d \in {<<>>, [release_date_override |-> Date2024],
            PerGame([release_date_override |-> Date2024])}}

InitMerge ==
  /\ lintMode = FALSE
  /\ \E m \in MergeMods :
       configYaml = Catalogued(<<m>>, <<Described @@ Repository
                                         @@ [thumbnail_art_url |-> "art/thumbnail"]>>)
  /\ \E list \in SeqsUpTo(MergeReleases, MaxReleases) : github = Some(list)
  /\ file = NoFile
  /\ now = 1
  /\ pc = "start"
  /\ idx = 1
  /\ rel = 1
  /\ modReleases = <<>>
  /\ modSourceInfo = <<>>
  /\ modSourceData = <<>>
  /\ exitCode = 0
  /\ stderr = NoMessage
  /\ run = 1
  /\ fileAtStart = NoFile
  /\ writes = 0
  /\ last = NoIteration
  /\ previous = [done |-> FALSE, changed |-> FALSE, pending |-> FALSE]

SpecMerge == InitMerge /\ [][NextOnce]_vars

(***************************************************************************)
(* What the properties say about a release, stated on the release itself   *)
(* and on the configuration entry rather than on the script's loops.       *)
(***************************************************************************)
Platforms == {"windows", "linux", "macos"}

PlatformPrefix ==
  [windows |-> <<"w", "i", "n", "d", "o", "w", "s", "-">>, linux |-> <<"l", "i", "n", "u", "x", "-">>, macos |-> <<"m", "a", "c", "o", "s", "-">>]

\* The assets of the release whose name starts with the platform's prefix.
PlatformAssets(release, platform) ==
  {i \in 1..Len(release.assets) :
     startsWith(toLowerCase(release.assets[i].name), PlatformPrefix[platform])}

HasPlatformAsset(release) == \E p \in Platforms : PlatformAssets(release, p) # {}

AssetsNamed(release, name) ==
  {i \in 1..Len(release.assets) : toLowerCase(release.assets[i].name) = name}

MetadataAssets(release) == AssetsNamed(release, <<"m", "e", "t", "a", "d", "a", "t", "a", ".", "j", "s", "o", "n">>)

\* The release has a metadata.json that is fetched with status 200, parses
\* and holds supportedGames.
MetadataGood(release) ==
  /\ MetadataAssets(release) # {}
  /\ \A i \in MetadataAssets(release) :
       LET content == release.assets[i].content
       IN content.status = 200 /\ content.text.json
          /\ "supportedGames" \in DOMAIN content.text.doc

DeclaredGames(release) ==
  release.assets[CHOOSE i \in MetadataAssets(release) : TRUE].content.text.doc["supportedGames"]

NormalizedVersion(release) == cleanedReleaseTag(release.tag_name)

\* The version a rule names: what follows "<", or the whole rule.
RuleBound(rule) == IF startsWith(rule, <<"<">>) THEN substring(rule, 1) ELSE rule

\* Some rule of the set excludes version V: a rule "<B" with V below B, or
\* a rule without prefix that is the same version as V.
ExcludedBy(ruleSet, V) ==
  \E rule \in ruleSet :
    /\ semverValid(RuleBound(rule))
    /\ IF startsWith(rule, <<"<">>)
       THEN semverCompare(semverParse(V), semverParse(RuleBound(rule))) = -1
       ELSE semverCompare(semverParse(V), semverParse(RuleBound(rule))) = 0

\* The rules of a list, whatever their order.
RuleSet(rules) == {rules[i] : i \in 1..Len(rules)}

Excluded(rules, V) == ExcludedBy(RuleSet(rules), V)

\* The version filter: a valid version that no ignore rule of the entry
\* excludes (an entry without ignore_versions excludes nothing).
PassesFilter(modInfo, release) ==
  /\ semverValid(NormalizedVersion(release))
  /\ "ignore_versions" \in DOMAIN modInfo =>
       ~Excluded(modInfo["ignore_versions"], NormalizedVersion(release))

\* The art URL is defined for the whole mod, or for every game of the list.
ArtResolvable(modInfo, games, field) ==
  \/ field \in DOMAIN modInfo
  \/ /\ "per_game_config" \in DOMAIN modInfo
     /\ \A i \in 1..Len(games) :
          /\ games[i] \in DOMAIN modInfo["per_game_config"]
          /\ field \in DOMAIN modInfo["per_game_config"][games[i]]

ArtFields == {"cover_art_url", "thumbnail_art_url"}

\* The run ended in failure.
Aborted == pc \in {"exited", "crashed"} /\ exitCode # 0

\* A release of a mod that has everything a version needs.
Complete(modInfo, release) ==
  /\ PassesFilter(modInfo, release)
  /\ MetadataGood(release)
  /\ \A f \in ArtFields : ArtResolvable(modInfo, DeclaredGames(release), f)
  /\ HasPlatformAsset(release)

\* The iteration added exactly one version, with the normalized version,
\* a matching asset's URL in every matched slot and null in the others.
AddedOneVersion ==
  /\ last.outcome = "added"
  /\ Len(last.after.versions) = Len(last.before.versions) + 1
  /\ SubSeq(last.after.versions, 1, Len(last.before.versions)) = last.before.versions
  /\ LET newVersion == last.after.versions[Len(last.after.versions)]
     IN /\ newVersion.version = NormalizedVersion(last.release)
        /\ \A p \in Platforms :
             IF PlatformAssets(last.release, p) = {}
             THEN newVersion.assets[p] = Null
             ELSE \E i \in PlatformAssets(last.release, p) :
                    newVersion.assets[p] = last.release.assets[i].browser_download_url

(***************************************************************************)
(* C1.  In a full run, every complete release of a repository-backed mod   *)
(* (valid version, no ignore rule matching, metadata.json fetched with 200 *)
(* and holding supportedGames, art URLs resolvable, a platform asset)      *)
(* yields exactly one entry of the mod's versions list, whether or not the *)
(* entry configures ignore_versions.                                       *)
(***************************************************************************)
C1_CompleteReleaseYieldsVersion ==
  (last.kind = "mod" /\ Complete(last.modInfo, last.release)) => AddedOneVersion

\* The same for the entries that configure ignore_versions: what the script
\* does do.
C1_WithIgnoreList ==
  (/\ last.kind = "mod"
   /\ "ignore_versions" \in DOMAIN last.modInfo
   /\ Complete(last.modInfo, last.release)) => AddedOneVersion

(***************************************************************************)
(* C2.  In a full run, a release of a repository-backed mod that passes    *)
(* the version filter and whose metadata.json is missing, not fetched with *)
(* 200, unparsable or without supportedGames aborts the run with a         *)
(* non-zero exit, whether or not the entry configures ignore_versions and  *)
(* whether or not the release has platform assets.                         *)
(***************************************************************************)
C2_BadMetadataAborts ==
  (/\ last.kind = "mod"
   /\ PassesFilter(last.modInfo, last.release)
   /\ ~MetadataGood(last.release)) => (last.outcome = "exit" /\ Aborted)

C2_WithIgnoreList ==
  (/\ last.kind = "mod"
   /\ "ignore_versions" \in DOMAIN last.modInfo
   /\ PassesFilter(last.modInfo, last.release)
   /\ ~MetadataGood(last.release)) => (last.outcome = "exit" /\ Aborted)

(***************************************************************************)
(* C3.  In a full run, for a mod without a top-level cover_art_url         *)
(* (thumbnail_art_url), an accepted release (valid version, not ignored,   *)
(* metadata present) naming a game for which per_game_config has no such   *)
(* URL, or met by an entry without per_game_config, aborts the run with an *)
(* error naming the mod and a missing URL field, whether or not the entry  *)
(* configures ignore_versions.                                             *)
(***************************************************************************)
MissingArt(modInfo, release) ==
  {f \in ArtFields : ~ArtResolvable(modInfo, DeclaredGames(release), f)}

C3_MissingArtAborts ==
  (/\ last.kind = "mod"
   /\ PassesFilter(last.modInfo, last.release)
   /\ MetadataGood(last.release)
   /\ MissingArt(last.modInfo, last.release) # {})
  => (/\ last.outcome = "exit"
      /\ Aborted
      /\ stderr.mod = last.name
      /\ stderr.field \in MissingArt(last.modInfo, last.release))

C3_WithIgnoreList ==
  (/\ last.kind = "mod"
   /\ "ignore_versions" \in DOMAIN last.modInfo
   /\ PassesFilter(last.modInfo, last.release)
   /\ MetadataGood(last.release)
   /\ MissingArt(last.modInfo, last.release) # {})
  => (/\ last.outcome = "exit"
      /\ Aborted
      /\ stderr.mod = last.name
      /\ stderr.field \in MissingArt(last.modInfo, last.release))

(***************************************************************************)
(* C5.  For a texture pack in a full run, a release that passes the        *)
(* version filter and has an asset named assets.zip yields a version with  *)
(* that asset's URL and download count, and one without such an asset is   *)
(* dropped without aborting the run.                                       *)
(***************************************************************************)
ArchiveAssets(release) == AssetsNamed(release, <<"a", "s", "s", "e", "t", "s", ".", "z", "i", "p">>)

C5_PackReleaseYieldsVersion ==
  (last.kind = "pack" /\ PassesFilter(last.modInfo, last.release))
  => IF ArchiveAssets(last.release) # {}
     THEN /\ last.outcome = "added"
          /\ Len(last.after.versions) = Len(last.before.versions) + 1
          /\ \E i \in ArchiveAssets(last.release) :
               LET newVersion == last.after.versions[Len(last.after.versions)]
               IN /\ newVersion.downloadUrl = last.release.assets[i].browser_download_url
                  /\ newVersion.downloadCount = last.release.assets[i].download_count
     ELSE /\ last.outcome = "no_assets"
          /\ ~Aborted
          /\ last.after.versions = last.before.versions

(***************************************************************************)
(* C6.  Every version string in a versions list has no leading "v" and is  *)
(* a valid semantic version, whatever the tag was (more than one leading   *)
(* "v" included); a tag with one leading "v" loses exactly that character  *)
(* and a tag without it is emitted as it is.                               *)
(***************************************************************************)
\* The versions lists of the mods: the one being built and those stored.
ModVersionLists ==
  (IF pc = "modReleases" THEN {modSourceInfo.versions} ELSE {})
  \cup (IF modSourceData = <<>> THEN {}
        ELSE {modSourceData.mods[i].info.versions : i \in 1..Len(modSourceData.mods)})

C6_EmittedVersionsNormalized ==
  /\ \A versions \in ModVersionLists : \A i \in 1..Len(versions) :
       /\ ~startsWith(versions[i].version, <<"v">>)
       /\ semverValid(versions[i].version)
  /\ (last.kind = "mod" /\ last.outcome = "added") =>
       LET tag == last.release.tag_name
           emitted == last.after.versions[Len(last.after.versions)].version
       IN IF startsWith(tag, <<"v">>) THEN <<"v">> \o emitted = tag ELSE emitted = tag

(***************************************************************************)
(* C7.  Every mod entry of the catalog being assembled, repository-backed  *)
(* or external, in a full run or in lint mode, has a supportedGames list   *)
(* that is not empty.                                                      *)
(***************************************************************************)
C7_SupportedGamesNeverEmpty ==
  modSourceData # <<>> =>
    \A i \in 1..Len(modSourceData.mods) : Len(modSourceData.mods[i].info.supportedGames) > 0

\* The same for the entries that go through lines 314-317, the
\* repository-backed ones.
C7_RepositoryMods ==
  modSourceData # <<>> =>
    \A i \in 1..Len(modSourceData.mods) :
      modSourceData.mods[i].info.externalLink = Null =>
        Len(modSourceData.mods[i].info.supportedGames) > 0

WellFormed(rules) == \A rule \in RuleSet(rules) : semverValid(RuleBound(rule))

AllEntriesStored ==
  /\ modSourceData # <<>>
  /\ Len(modSourceData.mods) = Len(configYaml.doc["mods"])
  /\ includes(configYaml.doc, "texture_packs")
       => Len(modSourceData.texturePacks) = Len(configYaml.doc["texture_packs"])

C10_FileWrittenOnceAtTheEnd ==
  [][/\ file' # file
          => (pc = "write" /\ ~lintMode /\ file = fileAtStart /\ writes = 0 /\ AllEntriesStored)
     /\ (lintMode' \/ Aborted') => file' = fileAtStart']_vars

\* A later run that ended on a fatal condition, on a file an earlier run
\* had written.
C10_Witness ==
  /\ run > 1
  /\ fileAtStart.exists
  /\ Aborted
  /\ file = fileAtStart

(***************************************************************************)
(* C4.  At the end of a full run the file has been written, with the       *)
(* assembled catalog and the time of the run as lastUpdated, exactly when  *)
(* there was no file or the file without its lastUpdated differs from the  *)
(* assembled catalog; a full run that follows a completed full run on the  *)
(* same configuration and the same releases writes nothing and leaves the  *)
(* file as it was.                                                         *)
(***************************************************************************)
\* The catalog the run assembled, as JSON spells it.
Assembled == JSONstringify(deleteKey(modSourceData, "lastUpdated"), 0).doc

C4_WrittenIffDifferent ==
  (pc = "done" /\ ~lintMode) =>
    LET differs ==
          \/ ~fileAtStart.exists
          \/ deleteKey(fileAtStart.text.doc, "lastUpdated") # Assembled
    IN /\ writes = 1 <=> differs
       /\ differs => file = [exists |-> TRUE,
                             text |-> [json |-> TRUE, indent |-> 4,
                                       doc |-> setKey(Assembled, "lastUpdated", now)]]
       /\ ~differs => (writes = 0 /\ file = fileAtStart)
       /\ (previous.done /\ ~previous.changed) => (writes = 0 /\ file = fileAtStart)

\* A second full run on the same releases, with a version in the catalog,
\* that wrote nothing.
C4_Witness ==
  /\ pc = "done"
  /\ ~lintMode
  /\ previous.done
  /\ ~previous.changed
  /\ writes = 0
  /\ file.exists
  /\ \E i \in 1..Len(modSourceData.mods) : Len(modSourceData.mods[i].info.versions) > 0

(***************************************************************************)
(* C11.  When a release is added, every platform slot that some asset of   *)
(* the release matches holds the URL and the download count of the first   *)
(* asset with that platform's prefix, in the release's asset order.        *)
(***************************************************************************)
FirstPlatformAsset(release, platform) ==
  CHOOSE i \in PlatformAssets(release, platform) :
    \A j \in PlatformAssets(release, platform) : i <= j

LastPlatformAsset(release, platform) ==
  CHOOSE i \in PlatformAssets(release, platform) :
    \A j \in PlatformAssets(release, platform) : i >= j

C11_FirstMatchingAssetWins ==
  (last.kind = "mod" /\ last.outcome = "added") =>
    LET newVersion == last.after.versions[Len(last.after.versions)]
    IN \A p \in Platforms :
         PlatformAssets(last.release, p) # {} =>
           LET first == last.release.assets[FirstPlatformAsset(last.release, p)]
           IN /\ newVersion.assets[p] = first.browser_download_url
              /\ newVersion.assetDownloadCounts[p] = first.download_count

\* What the loop of lines 207-220 does instead: the last one stays.
C11_LastMatchingAssetStays ==
  (last.kind = "mod" /\ last.outcome = "added") =>
    LET newVersion == last.after.versions[Len(last.after.versions)]
    IN \A p \in Platforms :
         PlatformAssets(last.release, p) # {} =>
           LET final == last.release.assets[LastPlatformAsset(last.release, p)]
           IN /\ newVersion.assets[p] = final.browser_download_url
              /\ newVersion.assetDownloadCounts[p] = final.download_count

(***************************************************************************)
(* The repository-backed mods of the catalog, in a full run: the entry of  *)
(* the configuration, the releases the API listed, and which of them the   *)
(* script took.                                                            *)
(***************************************************************************)
\* The stored mods that went through the release loop.
StoredRepositoryMods ==
  IF modSourceData = <<>> \/ lintMode \/ github = Undefined THEN {}
  ELSE {i \in 1..Len(modSourceData.mods) : modSourceData.mods[i].info.externalLink = Null}

Elements(list) == {list[i] : i \in 1..Len(list)}

DuplicateFree(list) == \A i, j \in 1..Len(list) : list[i] = list[j] => i = j

\* The releases whose metadata the script read: they pass the filter and
\* their metadata.json is in order.
Resolved(modInfo, list) ==
  IF "ignore_versions" \notin DOMAIN modInfo THEN {}
  ELSE {k \in 1..Len(list) : PassesFilter(modInfo, list[k]) /\ MetadataGood(list[k])}

\* The releases that are accepted: they end up in the versions list.
Accepted(modInfo, list) ==
  {k \in Resolved(modInfo, list) : HasPlatformAsset(list[k])}

(***************************************************************************)
(* C13.  For every repository-backed mod of the catalog, supportedGames    *)
(* has no duplicates and holds exactly the games of the entries of the     *)
(* mod's versions list, or is <<"jak1">> when those entries hold no game.  *)
(***************************************************************************)
VersionGames(versions) ==
  UNION {Elements(versions[k].supportedGames) : k \in 1..Len(versions)}

C13_SupportedGamesIsUnionOfVersions ==
  modSourceData # <<>> =>
    \A i \in 1..Len(modSourceData.mods) :
      LET info == modSourceData.mods[i].info
      IN info.externalLink = Null =>
           /\ DuplicateFree(info.supportedGames)
           /\ IF VersionGames(info.versions) = {}
              THEN info.supportedGames = <<"jak1">>
              ELSE Elements(info.supportedGames) = VersionGames(info.versions)

\* What lines 232-239 and 314-317 give: the games of every release whose
\* metadata was read, the ones dropped at line 300 included.
C13_UnionOfResolvedReleases ==
  \A i \in StoredRepositoryMods :
    LET info == modSourceData.mods[i].info
        modInfo == configYaml.doc["mods"][i].info
        games == UNION {Elements(DeclaredGames(github[1][k])) :
                          k \in Resolved(modInfo, github[1])}
    IN /\ DuplicateFree(info.supportedGames)
       /\ IF games = {} THEN info.supportedGames = <<"jak1">>
          ELSE Elements(info.supportedGames) = games

(***************************************************************************)
(* C12.  For every repository-backed mod of the catalog and every game     *)
(* that an accepted release declares, the game's releaseDate is the        *)
(* entry's release_date_override if there is one, else the game's          *)
(* per_game_config release_date_override if there is one, else the         *)
(* earliest published_at of the accepted releases that declare the game:   *)
(* a function of the set of releases, not of their order.                  *)
(***************************************************************************)
\* The releases among `taken` that declare the game.
Declaring(list, taken, game) ==
  {k \in taken : game \in Elements(DeclaredGames(list[k]))}

\* date is the earliest publish timestamp of the releases `declaring`.
EarliestOf(list, declaring, date) ==
  LET dated == {k \in declaring : DateParse(list[k].published_at) # <<>>}
  IN dated # {} =>
       \E k \in dated :
         /\ date = list[k].published_at
         /\ \A j \in dated :
              DateParse(list[k].published_at)[1] <= DateParse(list[j].published_at)[1]

\* The release date the precedence of the overrides gives the game.
ResolvedDate(modInfo, list, taken, game, date) ==
  IF "release_date_override" \in DOMAIN modInfo
  THEN date = modInfo["release_date_override"]
  ELSE IF /\ "per_game_config" \in DOMAIN modInfo
          /\ game \in DOMAIN modInfo["per_game_config"]
          /\ "release_date_override" \in DOMAIN modInfo["per_game_config"][game]
  THEN date = modInfo["per_game_config"][game]["release_date_override"]
  ELSE EarliestOf(list, Declaring(list, taken, game), date)

C12_EarliestResolvedWhenAllDated ==
  \A i \in StoredRepositoryMods :
    LET info == modSourceData.mods[i].info
        modInfo == configYaml.doc["mods"][i].info
        list == github[1]
        taken == Resolved(modInfo, list)
    IN (\A k \in 1..Len(list) : DateParse(list[k].published_at) # <<>>) =>
         \A game \in UNION {Elements(DeclaredGames(list[k])) : k \in taken} :
           /\ game \in DOMAIN info.perGameConfig
           /\ "releaseDate" \in DOMAIN info.perGameConfig[game]
           /\ ResolvedDate(modInfo, list, taken, game, info.perGameConfig[game]["releaseDate"])

\* A release without publish date (a draft) that is the first to declare
\* a game leaves null there for good: Date.parse(null) is NaN, and line 255
\* replaces a date only by one that compares lower.
C12_UndatedFirstReleaseStays ==
  \A i \in StoredRepositoryMods :
    LET info == modSourceData.mods[i].info
        modInfo == configYaml.doc["mods"][i].info
        list == github[1]
        taken == Resolved(modInfo, list)
    IN \A k \in taken : \A game \in Elements(DeclaredGames(list[k])) :
         (/\ list[k].published_at = <<>>
          /\ \A j \in Declaring(list, taken, game) : k <= j
          /\ "release_date_override" \notin DOMAIN modInfo
          /\ ~("per_game_config" \in DOMAIN modInfo /\ game \in DOMAIN modInfo["per_game_config"]))
         => info.perGameConfig[game]["releaseDate"] = <<>>

====
